---- MODULE Spec2Model ----
(***************************************************************************)
(* CallMLA (src/app.py): a Flask application that answers a telephony      *)
(* call event by synthesising a Telugu message through the ElevenLabs      *)
(* text-to-speech API, storing the audio at one fixed path and replying    *)
(* with a voice document that plays it.  The model covers the call-event   *)
(* handler (voice_response / generate_telugu_audio / create_twiml_response)*)
(* the audio-retrieval handler (serve_audio) and the generic webhook.      *)
(*                                                                         *)
(* Strings are sequences of one-character strings, files are sequences of  *)
(* bytes, and every handler is cut into steps at the points where it       *)
(* touches the shared file or the network.                                 *)
(***************************************************************************)
EXTENDS Integers, Sequences, FiniteSets, TLC

VARIABLES
    ELEVENLABS_API_KEY,   \* module global, read from the environment at import
    ELEVENLABS_VOICE_ID,  \* module global, read from the environment at import
    artifact,             \* the file at AUDIO_PATH: [exists, data]
    artBefore,            \* history: the file as it was when the latest call event arrived
    req,                  \* per worker slot: the call-event request it is handling
    audio,                \* the audio-retrieval handler: [pc, filename, file_size, resp]
    hook,                 \* the webhook handler: [pc, json, form, resp]
    twiml                 \* create_twiml_response called on its own: [arg, resp]

vars == <<ELEVENLABS_API_KEY, ELEVENLABS_VOICE_ID, artifact, artBefore, req, audio, hook, twiml>>

-----------------------------------------------------------------------------
(* Bounds of the model *)

MaxText == 2    \* longest message text of a call event
MaxBody == 2    \* longest provider response body, in bytes
MaxUrl  == 3    \* longest URL handed to create_twiml_response on its own

-----------------------------------------------------------------------------
(* Sets the inputs are drawn from *)

SeqsUpTo(S, n) == UNION {[1..k -> S] : k \in 0..n}

Whitespace == {" ", "\t"}
TextChars  == {" ", "a"}
UrlChars   == {" ", "\t", "h", "/"}
Bytes      == {1, 2}

Requests == {"w1", "w2"}

Texts  == SeqsUpTo(TextChars, MaxText)
Bodies == SeqsUpTo(Bytes, MaxBody)
\* bodies of the provider's error responses (only logged)
ErrorBodies == {b \in Bodies : Len(b) <= 1}
Urls   == SeqsUpTo(UrlChars, MaxUrl)

\* request.form of a call event, reduced to its message field
NoMessage == [present |-> FALSE, value |-> <<>>]
Forms == {NoMessage} \cup {[present |-> TRUE, value |-> t] : t \in Texts}

\* request.host_url: scheme, host and exactly one trailing slash
Hosts == {<<"h", "t", "t", "p", ":", "/", "/", "h", "/">>,
          <<"h", "t", "t", "p", "s", ":", "/", "/", "g", "/">>}

\* values the environment can give the two ElevenLabs settings
ApiKeys  == {"", "your_elevenlabs_api_key", "sk_live"}
VoiceIds == {"", "your_elevenlabs_voice_id", "voice1"}

\* what requests.post can come back with
StatusCodes == {200, 204, 401, 500}
Raised == {"Timeout", "ConnectionError", "RequestException", "Exception"}
NoOutcome == [kind |-> "none", status_code |-> 0, content |-> <<>>]
HttpOutcome(s, b) == [kind |-> "response", status_code |-> s, content |-> b]
RaisedOutcome(e) == [kind |-> e, status_code |-> 0, content |-> <<>>]

-----------------------------------------------------------------------------
(* Program constants *)

AUDIO_FILENAME ==
    <<"m", "l", "a", "-", "r", "e", "s", "p", "o", "n", "s", "e", ".", "m", "p", "3">>

\* the default of request.form.get('message', ...), transliterated
DefaultMessage == <<"m", "e", "e", "r", "u", " ", "e", "v", "a", "r", "u", "?">>

AudioRoute == <<"/", "a", "u", "d", "i", "o", "/">>

-----------------------------------------------------------------------------
(* str methods *)

RECURSIVE lstrip(_, _)
lstrip(s, chars) ==
    IF s # <<>> /\ Head(s) \in chars THEN lstrip(Tail(s), chars) ELSE s

RECURSIVE rstrip(_, _)
rstrip(s, chars) ==
    IF s # <<>> /\ s[Len(s)] \in chars
    THEN rstrip(SubSeq(s, 1, Len(s) - 1), chars)
    ELSE s

strip(s) == rstrip(lstrip(s, Whitespace), Whitespace)

\* `not s or not s.strip()`
Blank(s) == s = <<>> \/ strip(s) = <<>>

-----------------------------------------------------------------------------
(* Files *)

NoFile == [exists |-> FALSE, data |-> <<>>]
File(d) == [exists |-> TRUE, data |-> d]

\* os.path.getsize
getsize(f) == Len(f.data)

\* open(path, "wb"): creates the file or truncates it
Truncated == File(<<>>)

\* write(2) of chunk at offset pos; a gap past the end reads as zero bytes
WriteAt(d, pos, chunk) ==
    LET end == pos + Len(chunk)
        n == IF end > Len(d) THEN end ELSE Len(d)
    IN  [i \in 1..n |->
            IF i > pos /\ i <= end THEN chunk[i - pos]
            ELSE IF i <= Len(d) THEN d[i] ELSE 0]

-----------------------------------------------------------------------------
(* Flask responses *)

NoResponse == [status |-> 0, mimetype |-> "", text |-> "", doc |-> <<>>, data |-> <<>>]

TextResponse(t, s) ==
    [status |-> s, mimetype |-> "text/plain", text |-> t, doc |-> <<>>, data |-> <<>>]

XmlResponse(d) ==
    [status |-> 200, mimetype |-> "text/xml", text |-> "", doc |-> d, data |-> <<>>]

FileResponse(d) ==
    [status |-> 200, mimetype |-> "audio/mpeg", text |-> "", doc |-> <<>>, data |-> d]

XmlDecl == "<?xml version=\"1.0\" encoding=\"UTF-8\"?>"

\* mutant: the URL is trimmed before it is put in the document
create_twiml_response_trimmed(audio_url) ==
    IF Blank(audio_url)
    THEN TextResponse("Invalid audio URL", 400)
    ELSE XmlResponse(<<XmlDecl, "<Response>", "<Play>">> \o strip(audio_url)
                        \o <<"</Play>", "</Response>">>)

create_twiml_response(audio_url) ==
    IF Blank(audio_url)
    THEN TextResponse("Invalid audio URL", 400)
    ELSE XmlResponse(<<XmlDecl, "<Response>", "<Play>">> \o audio_url
                        \o <<"</Play>", "</Response>">>)

-----------------------------------------------------------------------------
(* generate_telugu_audio: the checks made before any network call *)

TextValid(text) == ~Blank(text)

KeyConfigured ==
    ~(ELEVENLABS_API_KEY = "" \/ ELEVENLABS_API_KEY = "your_elevenlabs_api_key")

VoiceConfigured ==
    ~(ELEVENLABS_VOICE_ID = "" \/ ELEVENLABS_VOICE_ID = "your_elevenlabs_voice_id")

-----------------------------------------------------------------------------
(* The call-event handler, POST /voice-response *)

IdleReq ==
    [pc |-> "idle", form |-> NoMessage, host_url |-> <<>>, telugu_message |-> <<>>,
     posted |-> <<>>, outcome |-> NoOutcome, pos |-> 0, file_size |-> -1,
     resp |-> NoResponse, logged |-> "", calls |-> 0, writes |-> 0,
     latest |-> FALSE, overlapped |-> FALSE]

Active(r) == req[r].pc \notin {"idle", "done", "error"}

GenerationFailed == TextResponse("Failed to generate audio", 500)

\* generate_telugu_audio logs the error and returns False; voice_response answers 500
Fail(r, error) ==
    req' = [req EXCEPT ![r] = [@ EXCEPT !.pc = "error", !.logged = error,
                                        !.resp = GenerationFailed]]

\* a call event with one of the given forms, sent to one of the given hosts, arrives
\* and Flask dispatches it to voice_response
ReceiveFrom(r, forms, hosts) ==
    /\ req[r].pc = "idle"
    /\ \E f \in forms, h \in hosts :
          req' = [req EXCEPT ![r] = [IdleReq EXCEPT !.pc = "received",
                                                    !.form = f, !.host_url = h]]
    /\ UNCHANGED <<ELEVENLABS_API_KEY, ELEVENLABS_VOICE_ID, artifact, audio, hook, twiml>>

\* history: what the file was when the request arrived
Receive(r) == ReceiveFrom(r, Forms, Hosts) /\ artBefore' = artifact

\* mutant: request.form.get('message') or default, so an empty message gives the default
ExtractMessageOrDefault(r) ==
    /\ req[r].pc = "received"
    /\ req' = [req EXCEPT ![r] = [@ EXCEPT
                  !.pc = "validating",
                  !.telugu_message = IF req[r].form.present /\ req[r].form.value # <<>>
                                     THEN req[r].form.value
                                     ELSE DefaultMessage]]
    /\ UNCHANGED <<ELEVENLABS_API_KEY, ELEVENLABS_VOICE_ID, artifact, artBefore, audio, hook, twiml>>

\* telugu_message = request.form.get('message', default); generate_telugu_audio is entered
ExtractMessage(r) ==
    /\ req[r].pc = "received"
    /\ req' = [req EXCEPT ![r] = [@ EXCEPT
                  !.pc = "validating",
                  !.telugu_message = IF req[r].form.present THEN req[r].form.value
                                     ELSE DefaultMessage]]
    /\ UNCHANGED <<ELEVENLABS_API_KEY, ELEVENLABS_VOICE_ID, artifact, artBefore, audio, hook, twiml>>

\* mutant: the voice ID check is missing
ShouldPostWithoutVoiceCheck(text) == TextValid(text) /\ KeyConfigured

ShouldPost(text) == TextValid(text) /\ KeyConfigured /\ VoiceConfigured

\* the first validation that fails
ValidationError(text) ==
    IF ~TextValid(text) THEN "Empty or whitespace-only text"
    ELSE IF ~KeyConfigured THEN "API key not configured"
    ELSE "Voice ID not configured"

\* the three validations, then requests.post is issued
Validate(r) ==
    /\ req[r].pc = "validating"
    /\ IF ShouldPost(req[r].telugu_message)
       THEN req' = [req EXCEPT ![r] = [@ EXCEPT !.pc = "synthesizing",
                                                !.posted = req[r].telugu_message,
                                                !.calls = @ + 1]]
       ELSE Fail(r, ValidationError(req[r].telugu_message))
    /\ UNCHANGED <<ELEVENLABS_API_KEY, ELEVENLABS_VOICE_ID, artifact, artBefore, audio, hook, twiml>>

\* requests.post returns status 200
ProviderOk(r) ==
    /\ req[r].pc = "synthesizing"
    /\ \E b \in Bodies :
          req' = [req EXCEPT ![r] = [@ EXCEPT !.pc = "makedirs",
                                              !.outcome = HttpOutcome(200, b)]]
    /\ UNCHANGED <<ELEVENLABS_API_KEY, ELEVENLABS_VOICE_ID, artifact, artBefore, audio, hook, twiml>>

\* mutant: every 2xx status is taken for success (response.ok instead of == 200)
ProviderRejectsUnlessOk(r) ==
    /\ req[r].pc = "synthesizing"
    /\ \E s \in StatusCodes \ {200}, b \in ErrorBodies :
          req' = [req EXCEPT ![r] =
                    IF s < 300
                    THEN [@ EXCEPT !.pc = "makedirs", !.outcome = HttpOutcome(s, b)]
                    ELSE [@ EXCEPT !.pc = "error", !.outcome = HttpOutcome(s, b),
                                   !.logged = "ElevenLabs API error",
                                   !.resp = GenerationFailed]]
    /\ UNCHANGED <<ELEVENLABS_API_KEY, ELEVENLABS_VOICE_ID, artifact, artBefore, audio, hook, twiml>>

\* requests.post returns another status
ProviderRejects(r) ==
    /\ req[r].pc = "synthesizing"
    /\ \E s \in StatusCodes \ {200}, b \in ErrorBodies :
          req' = [req EXCEPT ![r] = [@ EXCEPT !.pc = "error",
                                              !.outcome = HttpOutcome(s, b),
                                              !.logged = "ElevenLabs API error",
                                              !.resp = GenerationFailed]]
    /\ UNCHANGED <<ELEVENLABS_API_KEY, ELEVENLABS_VOICE_ID, artifact, artBefore, audio, hook, twiml>>

\* requests.post raises (the 30 s timeout included)
ProviderRaises(r) ==
    /\ req[r].pc = "synthesizing"
    /\ \E e \in Raised :
          req' = [req EXCEPT ![r] = [@ EXCEPT !.pc = "error",
                                              !.outcome = RaisedOutcome(e),
                                              !.logged = e,
                                              !.resp = GenerationFailed]]
    /\ UNCHANGED <<ELEVENLABS_API_KEY, ELEVENLABS_VOICE_ID, artifact, artBefore, audio, hook, twiml>>

\* os.makedirs(AUDIO_DIR, exist_ok=True)
MakeDirs(r) ==
    /\ req[r].pc = "makedirs"
    /\ req' = [req EXCEPT ![r] = [@ EXCEPT !.pc = "open"]]
    /\ UNCHANGED <<ELEVENLABS_API_KEY, ELEVENLABS_VOICE_ID, artifact, artBefore, audio, hook, twiml>>

MakeDirsFails(r) ==
    /\ req[r].pc = "makedirs"
    /\ Fail(r, "Failed to create audio directory")
    /\ UNCHANGED <<ELEVENLABS_API_KEY, ELEVENLABS_VOICE_ID, artifact, artBefore, audio, hook, twiml>>

\* The request r has the file open, its offset at 0.  History: r is now the
\* latest to have opened the file, and the requests that had it open at that
\* moment, with r, are the ones whose stores overlapped another's.
Opening(r) ==
    [s \in Requests |->
        IF s = r
        THEN [req[r] EXCEPT !.pc = "write", !.pos = 0, !.writes = @ + 1,
                            !.latest = TRUE,
                            !.overlapped = \E t \in Requests \ {r} : req[t].pc = "write"]
        ELSE [req[s] EXCEPT !.latest = FALSE,
                            !.overlapped = @ \/ req[s].pc = "write"]]

\* mutant: the file is opened without truncation (mode "r+b" on an existing file)
OpenFileKeepingContent(r) ==
    /\ req[r].pc = "open"
    /\ artifact' = IF artifact.exists THEN artifact ELSE Truncated
    /\ req' = Opening(r)
    /\ UNCHANGED <<ELEVENLABS_API_KEY, ELEVENLABS_VOICE_ID, artBefore, audio, hook, twiml>>

\* open(AUDIO_PATH, "wb")
OpenFile(r) ==
    /\ req[r].pc = "open"
    /\ artifact' = Truncated
    /\ req' = Opening(r)
    /\ UNCHANGED <<ELEVENLABS_API_KEY, ELEVENLABS_VOICE_ID, artBefore, audio, hook, twiml>>

\* mutant: the open that fails has emptied the file all the same
OpenFailsAfterTruncating(r) ==
    /\ req[r].pc = "open"
    /\ Fail(r, "IO error while saving audio file")
    /\ artifact' = Truncated
    /\ UNCHANGED <<ELEVENLABS_API_KEY, ELEVENLABS_VOICE_ID, artBefore, audio, hook, twiml>>

\* open(AUDIO_PATH, "wb") raises IOError: nothing is opened, nothing truncated
OpenFails(r) ==
    /\ req[r].pc = "open"
    /\ Fail(r, "IO error while saving audio file")
    /\ UNCHANGED <<ELEVENLABS_API_KEY, ELEVENLABS_VOICE_ID, artifact, artBefore, audio, hook, twiml>>

\* audio_file.write(response.content) reaches the file in one or more chunks
WriteChunk(r) ==
    /\ req[r].pc = "write"
    /\ req[r].pos < Len(req[r].outcome.content)
    /\ \E k \in 1..(Len(req[r].outcome.content) - req[r].pos) :
          /\ artifact' = File(WriteAt(artifact.data, req[r].pos,
                               SubSeq(req[r].outcome.content, req[r].pos + 1, req[r].pos + k)))
          /\ req' = [req EXCEPT ![r] = [@ EXCEPT !.pos = @ + k]]
    /\ UNCHANGED <<ELEVENLABS_API_KEY, ELEVENLABS_VOICE_ID, artBefore, audio, hook, twiml>>

\* the write or the close raises IOError
WriteFails(r) ==
    /\ req[r].pc = "write"
    /\ Fail(r, "IO error while saving audio file")
    /\ UNCHANGED <<ELEVENLABS_API_KEY, ELEVENLABS_VOICE_ID, artifact, artBefore, audio, hook, twiml>>

\* the with block is left
CloseFile(r) ==
    /\ req[r].pc = "write"
    /\ req[r].pos = Len(req[r].outcome.content)
    /\ req' = [req EXCEPT ![r] = [@ EXCEPT !.pc = "verify"]]
    /\ UNCHANGED <<ELEVENLABS_API_KEY, ELEVENLABS_VOICE_ID, artifact, artBefore, audio, hook, twiml>>

\* mutant: the size of the file is not looked at
VerifiedExistsOnly(f) == f.exists

\* what the verification concludes from the file it finds
Verified(f) == f.exists /\ getsize(f) # 0

VerifyError(f) ==
    IF f.exists THEN "Audio file is empty after saving" ELSE "Audio file was not created"

\* mutant: an empty file is stored again instead of failing the request
VerifyRetrying(r) ==
    /\ req[r].pc = "verify"
    /\ req' = [req EXCEPT ![r] = [@ EXCEPT
                  !.file_size = IF artifact.exists THEN getsize(artifact) ELSE @,
                  !.pc = IF Verified(artifact) THEN "build"
                         ELSE IF req[r].writes < 2 THEN "open" ELSE "error",
                  !.logged = IF Verified(artifact) \/ req[r].writes < 2 THEN @
                             ELSE VerifyError(artifact),
                  !.resp = IF Verified(artifact) \/ req[r].writes < 2 THEN @
                           ELSE GenerationFailed]]
    /\ UNCHANGED <<ELEVENLABS_API_KEY, ELEVENLABS_VOICE_ID, artifact, artBefore, audio, hook, twiml>>

\* os.path.exists(AUDIO_PATH), os.path.getsize(AUDIO_PATH), file_size == 0
Verify(r) ==
    /\ req[r].pc = "verify"
    /\ req' = [req EXCEPT ![r] = [@ EXCEPT
                  !.file_size = IF artifact.exists THEN getsize(artifact) ELSE @,
                  !.pc = IF Verified(artifact) THEN "build" ELSE "error",
                  !.logged = IF Verified(artifact) THEN @ ELSE VerifyError(artifact),
                  !.resp = IF Verified(artifact) THEN @ ELSE GenerationFailed]]
    /\ UNCHANGED <<ELEVENLABS_API_KEY, ELEVENLABS_VOICE_ID, artifact, artBefore, audio, hook, twiml>>

\* request.host_url.rstrip('/') + '/audio/' + AUDIO_FILENAME
AudioUrl(host_url) == rstrip(host_url, {"/"}) \o AudioRoute \o AUDIO_FILENAME

\* voice_response after success: the response it returns
BuildResponse(host_url, f) ==
    IF f.exists
    THEN create_twiml_response(AudioUrl(host_url))
    ELSE TextResponse("Audio file not found", 500)

Build(r) ==
    /\ req[r].pc = "build"
    /\ LET response == BuildResponse(req[r].host_url, artifact)
       IN  req' = [req EXCEPT ![r] = [@ EXCEPT
                      !.pc = IF response.mimetype = "text/xml" THEN "done" ELSE "error",
                      !.logged = IF artifact.exists THEN @
                                 ELSE "Audio file does not exist after successful generation",
                      !.resp = response]]
    /\ UNCHANGED <<ELEVENLABS_API_KEY, ELEVENLABS_VOICE_ID, artifact, artBefore, audio, hook, twiml>>

\* the response has been sent; the worker is free again
Return(r) ==
    /\ req[r].pc \in {"done", "error"}
    /\ req' = [req EXCEPT ![r] = IdleReq]
    /\ UNCHANGED <<ELEVENLABS_API_KEY, ELEVENLABS_VOICE_ID, artifact, artBefore, audio, hook, twiml>>

-----------------------------------------------------------------------------
(* The audio-retrieval handler, GET /audio/<path:filename> *)

FileNames == {AUDIO_FILENAME, <<"x">>, <<" ">>}

IdleAudio == [pc |-> "idle", filename |-> <<>>, file_size |-> -1, resp |-> NoResponse]

\* os.path.join('static/audio', filename): AUDIO_PATH is the only file ever put there
Lookup(filename) == IF filename = AUDIO_FILENAME THEN artifact ELSE NoFile

ServeReceive ==
    /\ audio.pc = "idle"
    /\ \E fn \in FileNames : audio' = [IdleAudio EXCEPT !.pc = "check", !.filename = fn]
    /\ UNCHANGED <<ELEVENLABS_API_KEY, ELEVENLABS_VOICE_ID, artifact, artBefore, req, hook, twiml>>

\* the filename validation and os.path.exists(file_path)
Checked(filename, f) ==
    IF Blank(filename) THEN TextResponse("Invalid filename", 400)
    ELSE IF ~f.exists THEN TextResponse("Audio file not found", 404)
    ELSE NoResponse

ServeCheck ==
    /\ audio.pc = "check"
    /\ LET response == Checked(audio.filename, Lookup(audio.filename))
       IN  audio' = [audio EXCEPT !.pc = IF response = NoResponse THEN "size" ELSE "served",
                                  !.resp = response]
    /\ UNCHANGED <<ELEVENLABS_API_KEY, ELEVENLABS_VOICE_ID, artifact, artBefore, req, hook, twiml>>

\* mutant: an empty file is served like any other
SizedUnchecked(f) == NoResponse

\* os.path.getsize(file_path) and file_size == 0
Sized(f) ==
    IF getsize(f) = 0 THEN TextResponse("Audio file is empty", 500) ELSE NoResponse

ServeSize ==
    /\ audio.pc = "size"
    /\ LET response == Sized(Lookup(audio.filename))
       IN  audio' = [audio EXCEPT !.pc = IF response = NoResponse THEN "send" ELSE "served",
                                  !.file_size = getsize(Lookup(audio.filename)),
                                  !.resp = response]
    /\ UNCHANGED <<ELEVENLABS_API_KEY, ELEVENLABS_VOICE_ID, artifact, artBefore, req, hook, twiml>>

\* send_from_directory('static/audio', filename)
Sent(f) ==
    IF f.exists THEN FileResponse(f.data) ELSE TextResponse("Error serving audio file", 500)

ServeSend ==
    /\ audio.pc = "send"
    /\ audio' = [audio EXCEPT !.pc = "served", !.resp = Sent(Lookup(audio.filename))]
    /\ UNCHANGED <<ELEVENLABS_API_KEY, ELEVENLABS_VOICE_ID, artifact, artBefore, req, hook, twiml>>

ServeReturn ==
    /\ audio.pc = "served"
    /\ audio' = IdleAudio
    /\ UNCHANGED <<ELEVENLABS_API_KEY, ELEVENLABS_VOICE_ID, artifact, artBefore, req, hook, twiml>>

-----------------------------------------------------------------------------
(* The generic webhook, POST /webhook *)

Keys == {"event"}

\* what request.get_json(silent=True) returns: None, or the parsed JSON value
NoJson == [kind |-> "none", keys |-> {}, empty |-> TRUE]
Dict(ks) == [kind |-> "object", keys |-> ks, empty |-> ks = {}]
JsonBodies ==
    {NoJson} \cup {Dict(ks) : ks \in SUBSET Keys}
             \cup {[kind |-> k, keys |-> {}, empty |-> e] : k \in {"array", "string"},
                                                            e \in BOOLEAN}

\* Python truth value of a JSON value or None
Truthy(v) == v.kind # "none" /\ ~v.empty

JsonResponse(st, msg, ks, code) ==
    [status |-> code, mimetype |-> "application/json",
     json_status |-> st, message |-> msg, data_keys |-> ks]

NoJsonResponse == JsonResponse("", "", {}, 0)

\* mutant: the form fields are not tried when there is no JSON
webhook_json_only(json, form) ==
    LET data == IF Truthy(json) THEN json ELSE Dict({})
    IN  IF ~Truthy(data)
        THEN JsonResponse("warning", "No data received", {}, 200)
        ELSE IF data.kind = "object"
        THEN JsonResponse("success", "Webhook received", data.keys, 200)
        ELSE JsonResponse("error", "object has no attribute 'keys'", {}, 500)

\* the body of webhook(): json is request.get_json(silent=True), form is request.form
webhook(json, form) ==
    LET parsed == IF Truthy(json) THEN json ELSE Dict({})
        data == IF ~Truthy(parsed) THEN Dict(form) ELSE parsed
    IN  IF ~Truthy(data)
        THEN JsonResponse("warning", "No data received", {}, 200)
        ELSE IF data.kind = "object"
        THEN JsonResponse("success", "Webhook received", data.keys, 200)
        \* list(data.keys()) raises AttributeError, caught by `except Exception`
        ELSE JsonResponse("error", "object has no attribute 'keys'", {}, 500)

IdleHook == [pc |-> "idle", json |-> NoJson, form |-> {}, resp |-> NoJsonResponse]

Webhook ==
    /\ hook.pc = "idle"
    /\ \E j \in JsonBodies, f \in SUBSET Keys :
          hook' = [pc |-> "served", json |-> j, form |-> f, resp |-> webhook(j, f)]
    /\ UNCHANGED <<ELEVENLABS_API_KEY, ELEVENLABS_VOICE_ID, artifact, artBefore, req, audio, twiml>>

HookReturn ==
    /\ hook.pc = "served"
    /\ hook' = IdleHook
    /\ UNCHANGED <<ELEVENLABS_API_KEY, ELEVENLABS_VOICE_ID, artifact, artBefore, req, audio, twiml>>

-----------------------------------------------------------------------------
(* create_twiml_response called on its own, on any URL *)

NoTwiml == [arg |-> <<>>, resp |-> NoResponse]

CallCreateTwiml ==
    /\ \E u \in Urls : twiml' = [arg |-> u, resp |-> create_twiml_response(u)]
    /\ UNCHANGED <<ELEVENLABS_API_KEY, ELEVENLABS_VOICE_ID, artifact, artBefore, req, audio, hook>>

-----------------------------------------------------------------------------
(* Specifications *)

Init ==
    /\ ELEVENLABS_API_KEY \in ApiKeys
    /\ ELEVENLABS_VOICE_ID \in VoiceIds
    /\ artifact \in {NoFile} \cup {File(b) : b \in Bodies}
    /\ artBefore = artifact
    /\ req = [r \in Requests |-> IdleReq]
    /\ audio = IdleAudio
    /\ hook = IdleHook
    /\ twiml = NoTwiml

\* no handler is running; a call event may still be waiting for its Return
Quiet ==
    /\ \A r \in Requests : ~Active(r)
    /\ audio.pc = "idle"
    /\ hook.pc = "idle"

\* no call event is being handled or answered
AllIdle == \A r \in Requests : req[r].pc = "idle"

\* no failure response is waiting for its Return
NoneFailed == \A r \in Requests : req[r].pc # "error"

CallStep(r) ==
    \/ ExtractMessage(r)
    \/ Validate(r)
    \/ ProviderOk(r)
    \/ ProviderRejects(r)
    \/ ProviderRaises(r)
    \/ MakeDirs(r)
    \/ MakeDirsFails(r)
    \/ OpenFile(r)
    \/ OpenFails(r)
    \/ WriteChunk(r)
    \/ WriteFails(r)
    \/ CloseFile(r)
    \/ Verify(r)
    \/ Build(r)

ServeStep == ServeCheck \/ ServeSize \/ ServeSend

\* steps of handlers that have started
Progress ==
    \/ \E r \in Requests : CallStep(r) \/ Return(r)
    \/ ServeStep
    \/ ServeReturn
    \/ HookReturn

\* The server handles one request at a time.  A response waiting for its Return
\* makes no difference to the handlers that follow, so they start once it has
\* returned; only the audio retrieval also starts beside a call event that is Done,
\* as the telephony provider fetches the audio the voice document names.
Next ==
    \/ \E r \in Requests : Quiet /\ AllIdle /\ Receive(r)
    \/ Quiet /\ NoneFailed /\ ServeReceive
    \/ Quiet /\ AllIdle /\ Webhook
    \/ Progress

Spec == Init /\ [][Next]_vars

\* a handler that has started runs to its response: every step of it terminates,
\* the provider call by its timeout
FairSpec == Spec /\ WF_vars(Progress)

\* The server handles call events in parallel threads: one starts whatever the
\* others are doing.  They all carry the default message and go to the same host,
\* neither of which bears on the file they share; the file is absent at first,
\* and whatever it held would be gone with the first open.
ConcurrentInit == Init /\ KeyConfigured /\ VoiceConfigured /\ artifact = NoFile

ConcurrentNext ==
    \E r \in Requests :
        \/ ReceiveFrom(r, {NoMessage}, {CHOOSE h \in Hosts : TRUE}) /\ UNCHANGED artBefore
        \/ CallStep(r)
        \/ Return(r)

ConcurrentSpec == ConcurrentInit /\ [][ConcurrentNext]_vars

TwimlSpec == Init /\ [][CallCreateTwiml]_vars

-----------------------------------------------------------------------------
(* Vocabulary of the properties *)

WhitespaceOnly(s) == \A i \in 1..Len(s) : s[i] \in Whitespace

Configured ==
    /\ ELEVENLABS_API_KEY \notin {"", "your_elevenlabs_api_key"}
    /\ ELEVENLABS_VOICE_ID \notin {"", "your_elevenlabs_voice_id"}

\* the text a call event asks to be spoken
MessageText(r) == IF req[r].form.present THEN req[r].form.value ELSE DefaultMessage

Terminal(r) == req[r].pc \in {"done", "error"}

IsVoiceDocument(response) ==
    /\ response.status = 200
    /\ response.mimetype = "text/xml"
    /\ response.doc # <<>>

IsFailure(response) ==
    /\ response.status \in 400..599
    /\ response.mimetype = "text/plain"
    /\ response.doc = <<>>

Answered200(r) ==
    /\ req[r].outcome.kind = "response"
    /\ req[r].outcome.status_code = 200

\* the directory creation, the open, the write or the close raised
StoreRaised(r) ==
    req[r].logged \in {"Failed to create audio directory", "IO error while saving audio file"}

-----------------------------------------------------------------------------
-----------------------------------------------------------------------------
(* C2: a call event whose text is empty or whitespace-only, or whose API   *)
(* key or voice ID is missing or the placeholder, never issues a provider  *)
(* call and never writes the artifact, which stays as it was, and it is    *)
(* answered with a failure response, not a voice document.                 *)
InvalidRequest(r) == WhitespaceOnly(MessageText(r)) \/ ~Configured

\* C2: an invalid request makes no provider call and no write, and is answered a failure
C2_NoCallNoWrite ==
    \A r \in Requests :
        (req[r].pc # "idle" /\ InvalidRequest(r))
        => /\ req[r].calls = 0
           /\ req[r].writes = 0
           /\ artifact = artBefore
           /\ req[r].pc \notin {"synthesizing", "makedirs", "open", "write", "verify",
                                "build", "done"}
           /\ Terminal(r) => IsFailure(req[r].resp) /\ ~IsVoiceDocument(req[r].resp)

\* message "a" with the placeholder API key, an artifact already stored
C2_Witness ==
    \E r \in Requests :
        /\ req[r].pc = "error"
        /\ req[r].form = [present |-> TRUE, value |-> <<"a">>]
        /\ ELEVENLABS_API_KEY = "your_elevenlabs_api_key"
        /\ req[r].resp.status = 500
        /\ artBefore = File(<<1, 2>>)
        /\ artifact = artBefore

-----------------------------------------------------------------------------
(* C3: when the provider answers with a status other than 200, or the call *)
(* times out, cannot connect or raises anything else, the call event is    *)
(* answered with a failure response and the artifact is never written: it  *)
(* is afterwards what it was when the request arrived.                     *)
C3_NoWriteOnProviderFailure ==
    \A r \in Requests :
        (req[r].outcome.kind # "none" /\ ~Answered200(r))
        => /\ req[r].pc = "error"
           /\ IsFailure(req[r].resp)
           /\ ~IsVoiceDocument(req[r].resp)
           /\ req[r].writes = 0
           /\ artifact = artBefore

\* a 204 answer with a body, the stored artifact untouched
C3_Witness ==
    \E r \in Requests :
        /\ req[r].pc = "error"
        /\ req[r].outcome = HttpOutcome(204, <<2>>)
        /\ artBefore = File(<<1, 2>>)
        /\ artifact = artBefore

-----------------------------------------------------------------------------
(* C4: when the provider answers 200 with a zero-byte body, the call event *)
(* handled alone is answered 500 and never with a voice document, and once *)
(* the write has gone through, the verification reads a size of zero and   *)
(* reports the file as empty.                                              *)
C4_EmptyBodyFails ==
    \A r \in Requests :
        (Terminal(r) /\ req[r].outcome = HttpOutcome(200, <<>>))
        => /\ req[r].pc = "error"
           /\ req[r].resp.status = 500
           /\ ~IsVoiceDocument(req[r].resp)
           /\ ~StoreRaised(r) => /\ req[r].file_size = 0
                                 /\ req[r].logged = "Audio file is empty after saving"

\* an empty body has been written over a stored artifact and found empty
C4_Witness ==
    \E r \in Requests :
        /\ req[r].pc = "error"
        /\ req[r].outcome = HttpOutcome(200, <<>>)
        /\ req[r].file_size = 0
        /\ req[r].logged = "Audio file is empty after saving"
        /\ artBefore = File(<<1>>)
        /\ artifact = File(<<>>)

-----------------------------------------------------------------------------
(* C5 as stated: when the call-event flow ends in Error, a client-caused   *)
(* failure such as an empty or whitespace-only message is answered 4xx,    *)
(* a provider or storage failure is answered 5xx, and no voice document is *)
(* returned in either case.                                                *)
C5_StatusReflectsCause ==
    \A r \in Requests :
        req[r].pc = "error"
        => /\ ~IsVoiceDocument(req[r].resp)
           /\ WhitespaceOnly(MessageText(r)) => req[r].resp.status \in 400..499
           /\ (req[r].outcome.kind # "none" \/ StoreRaised(r))
                 => req[r].resp.status \in 500..599

-----------------------------------------------------------------------------
(* The structure of a voice document: the XML declaration, one Response    *)
(* root, and in it one Play element and nothing else.                      *)
Positions(doc, token) == {i \in 1..Len(doc) : doc[i] = token}

OneElement(doc, open, close) ==
    /\ Cardinality(Positions(doc, open)) = 1
    /\ Cardinality(Positions(doc, close)) = 1
    /\ \A i \in Positions(doc, open), j \in Positions(doc, close) : i < j

Content(doc, open, close) ==
    LET i == CHOOSE k \in Positions(doc, open) : TRUE
        j == CHOOSE k \in Positions(doc, close) : TRUE
    IN  SubSeq(doc, i + 1, j - 1)

PlaysExactly(doc, url) ==
    /\ Len(doc) >= 5
    /\ doc[1] = "<?xml version=\"1.0\" encoding=\"UTF-8\"?>"
    /\ doc[2] = "<Response>"
    /\ doc[Len(doc)] = "</Response>"
    /\ OneElement(doc, "<Response>", "</Response>")
    /\ OneElement(doc, "<Play>", "</Play>")
    /\ Content(doc, "<Play>", "</Play>") = url
    /\ Content(doc, "<Response>", "</Response>") = <<"<Play>">> \o url \o <<"</Play>">>

\* the host URL without its trailing slash, then /audio/mla-response.mp3
ExpectedAudioUrl(host_url) ==
    SubSeq(host_url, 1, Len(host_url) - 1)
        \o <<"/", "a", "u", "d", "i", "o", "/">>
        \o <<"m", "l", "a", "-", "r", "e", "s", "p", "o", "n", "s", "e", ".", "m", "p", "3">>

\* generate_telugu_audio returned True: a 200 answer, stored and verified non-empty
Synthesized(r) == Answered200(r) /\ ~StoreRaised(r) /\ req[r].file_size > 0

-----------------------------------------------------------------------------
(* C6: the text handed to the synthesis, and posted to the provider, is    *)
(* the request's message field when the field is present (even if empty)   *)
(* and the default greeting exactly when it is absent; when the synthesis  *)
(* succeeds the answer is a 200 voice document whose Play element is the   *)
(* host URL without its trailing slash followed by /audio/mla-response.mp3 *)
(* whatever the message was.                                               *)
C6_TextAndPlayUrl ==
    \A r \in Requests :
        /\ req[r].pc \notin {"idle", "received"}
              => req[r].telugu_message = MessageText(r)
        /\ req[r].calls > 0 => req[r].posted = MessageText(r)
        /\ (Terminal(r) /\ Synthesized(r))
              => /\ req[r].pc = "done"
                 /\ IsVoiceDocument(req[r].resp)
                 /\ PlaysExactly(req[r].resp.doc, ExpectedAudioUrl(req[r].host_url))

\* a request with message "a " answered by a document playing the audio URL of host g
C6_Witness ==
    \E r \in Requests :
        /\ req[r].pc = "done"
        /\ req[r].form = [present |-> TRUE, value |-> <<"a", " ">>]
        /\ req[r].posted = <<"a", " ">>
        /\ req[r].host_url = <<"h", "t", "t", "p", "s", ":", "/", "/", "g", "/">>
        /\ PlaysExactly(req[r].resp.doc, ExpectedAudioUrl(req[r].host_url))

-----------------------------------------------------------------------------
-----------------------------------------------------------------------------
(* C8 as stated: the audio-retrieval endpoint answers 404 when the named   *)
(* file does not exist, 500 when it exists with zero bytes and otherwise   *)
(* 200 with the file's bytes; retrieving the artifact right after a        *)
(* successful synthesis gives 200 and as many bytes as the provider sent.  *)
ServesFile(response, f) ==
    /\ ~f.exists => response.status = 404
    /\ (f.exists /\ Len(f.data) = 0) => response.status = 500
    /\ (f.exists /\ Len(f.data) > 0)
          => /\ response.status = 200
             /\ response.mimetype = "audio/mpeg"
             /\ response.data = f.data

ServesLastSynthesis ==
    \A r \in Requests :
        (req[r].pc = "done" /\ audio.filename = AUDIO_FILENAME)
        => /\ audio.resp.status = 200
           /\ Len(audio.resp.data) = Len(req[r].outcome.content)

-----------------------------------------------------------------------------
(* C9: the webhook answers 200 with status "warning" when neither the JSON *)
(* body nor the form carries data and 200 with status "success" when data  *)
(* is present; the only other answer is 500 with status "error", given     *)
(* when an internal error occurs (a JSON value that is not an object has   *)
(* no keys); and no webhook request changes the audio artifact.            *)
JsonCarriesData(j) ==
    \/ j.kind = "object" /\ j.keys # {}
    \/ j.kind \in {"array", "string"} /\ ~j.empty

C9_Answer ==
    hook.pc = "served"
    => LET hasData == JsonCarriesData(hook.json) \/ hook.form # {}
           raises == hook.json.kind \in {"array", "string"} /\ ~hook.json.empty
       IN  /\ hook.resp.mimetype = "application/json"
           /\ ~hasData => hook.resp.status = 200 /\ hook.resp.json_status = "warning"
           /\ (hasData /\ ~raises)
                 => hook.resp.status = 200 /\ hook.resp.json_status = "success"
           /\ hook.resp.json_status \notin {"warning", "success"}
                 => /\ hook.resp.status = 500
                    /\ hook.resp.json_status = "error"
                    /\ raises

\* C9: the webhook's answer is always as above, and its step leaves the artifact alone
C9_Webhook == [](C9_Answer) /\ [][hook' # hook => artifact' = artifact]_vars

\* form fields alone count as data
C9_Witness ==
    /\ hook.pc = "served"
    /\ hook.json = NoJson
    /\ hook.form = {"event"}
    /\ hook.resp.status = 200
    /\ hook.resp.json_status = "success"
    /\ artifact = File(<<1>>)

-----------------------------------------------------------------------------
(* C10: a call event moves only forward through Received, Validating,      *)
(* Synthesizing, Storing, Verifying, BuildingResponse, Done, one state at  *)
(* a time, and leaves that order only for Error; inside Storing it only    *)
(* advances; it issues at most one provider call and opens the artifact    *)
(* for writing at most once; and every request received ends, in Done with *)
(* a voice document or in Error without one.                               *)
PhaseOf(pc) ==
    CASE pc = "idle" -> 0
      [] pc = "received" -> 1
      [] pc = "validating" -> 2
      [] pc = "synthesizing" -> 3
      [] pc \in {"makedirs", "open", "write"} -> 4
      [] pc = "verify" -> 5
      [] pc = "build" -> 6
      [] pc = "done" -> 7
      [] pc = "error" -> 8

StoringRank(q) ==
    CASE q.pc = "makedirs" -> 0
      [] q.pc = "open" -> 1
      [] q.pc = "write" -> 2 + q.pos
      [] OTHER -> 0

ForwardStep(old, new) ==
    LET p == PhaseOf(old.pc)
        q == PhaseOf(new.pc)
    IN  \/ p = 0 /\ q = 1
        \/ p \in {7, 8} /\ q = 0
        \/ p \in 1..6 /\ q = p + 1
        \/ p \in 1..6 /\ q = 8
        \/ p = 4 /\ q = 4 /\ StoringRank(new) > StoringRank(old)

C10_AtMostOnce ==
    \A r \in Requests :
        /\ req[r].calls <= 1
        /\ req[r].writes <= 1
        /\ req[r].pc = "done" => IsVoiceDocument(req[r].resp)
        /\ req[r].pc = "error" => IsFailure(req[r].resp)

\* C10: forward steps only, at most one call and one write, and every request ends
C10_LinearFlow ==
    /\ [][\A r \in Requests : req'[r] # req[r] => ForwardStep(req[r], req'[r])]_vars
    /\ [](C10_AtMostOnce)
    /\ \A r \in Requests : (req[r].pc = "received") ~> Terminal(r)

\* a request that went all the way: one call, one write, Done
C10_Witness ==
    \E r \in Requests :
        /\ req[r].pc = "done"
        /\ req[r].calls = 1
        /\ req[r].writes = 1
        /\ req[r].file_size = 2

-----------------------------------------------------------------------------
(* Call events handled in parallel.                                         *)

\* the step on which the request r answers with its voice document
ReturnsVoiceDocument(r) ==
    /\ req[r].pc = "build"
    /\ req'[r].pc = "done"
    /\ IsVoiceDocument(req'[r].resp)

\* C11: however the call events interleave, the artifact is non-empty on the
\* step on which a request answers 200 with a voice document.
C11_NonEmptyWhenAnswered ==
    [][\A r \in Requests :
          ReturnsVoiceDocument(r) => artifact'.exists /\ getsize(artifact') > 0]_vars

\* C12: however the call events interleave, a request that answers with a voice
\* document had a 200 with a non-empty body from the provider and stored it
\* itself without an error.
C12_OwnStoreAndVerify ==
    \A r \in Requests :
        req[r].pc = "done" =>
            /\ Answered200(r)
            /\ Len(req[r].outcome.content) > 0
            /\ req[r].writes = 1
            /\ ~StoreRaised(r)

\* the request r got a 200 from the provider and made and wrote the file
\* without an error being raised; it has answered
Stored(r) ==
    /\ Terminal(r)
    /\ Answered200(r)
    /\ req[r].writes = 1
    /\ ~StoreRaised(r)

AllStored == \A r \in Requests : Stored(r)

\* no request opened the file while another had it open
NoOverlap == \A r \in Requests : ~req[r].overlapped

\* C13, read at its weakest (the complete bytes of any one of the requests, and
\* none of them raising while storing): once all the concurrent requests, all
\* answered 200 by the provider, have completed, the file is the body of one of
\* them.
C13_AsStated ==
    AllStored => \E r \in Requests : artifact = File(req[r].outcome.content)

\* What does hold of the file once all have completed (all with a 200, none
\* raising while storing): if no request opened the file while another had it
\* open, the file is exactly the body of the request that opened it last.
LastStoreWins ==
    (AllStored /\ NoOverlap) =>
        \E r \in Requests :
            /\ req[r].latest
            /\ artifact = File(req[r].outcome.content)
            /\ \A s \in Requests \ {r} : ~req[s].latest

\* two requests in flight together, stores not overlapping: the first one
\* measured the body of the second, which is what the file holds in the end
LastStoreWinsSeen ==
    /\ AllStored
    /\ NoOverlap
    /\ \E r, s \in Requests :
          /\ req[r].latest /\ ~req[s].latest
          /\ Len(req[r].outcome.content) = 2
          /\ Len(req[s].outcome.content) = 1
          /\ req[s].file_size = 2
          /\ req[s].pc = "done" /\ req[r].pc = "done"
          /\ artifact = File(req[r].outcome.content)

-----------------------------------------------------------------------------
(* What a failed call event leaves in the file, one request at a time.      *)

EmptyBody(r) == Answered200(r) /\ req[r].outcome.content = <<>>

\* the bytes of its body the request r has written
WrittenSoFar(r) == SubSeq(req[r].outcome.content, 1, req[r].pos)

\* C14, read at its weakest: a request that arrived when there was a file and
\* failed for any reason other than a 200 with an empty body has left the file
\* as it was.
C14_AsStated ==
    \A r \in Requests :
        (req[r].pc = "error" /\ ~EmptyBody(r) /\ artBefore.exists) => artifact = artBefore

C14_AfterFailure ==
    \A r \in Requests :
        req[r].pc = "error" =>
            /\ req[r].writes = 0 => artifact = artBefore
            /\ req[r].writes = 1 => artifact = File(WrittenSoFar(r))
            /\ (req[r].writes = 1 /\ ~StoreRaised(r)) =>
                  /\ EmptyBody(r)
                  /\ req[r].logged = "Audio file is empty after saving"
                  /\ artifact = File(<<>>)

C14_EmptyAnswered500 ==
    (audio.pc = "served" /\ audio.filename = AUDIO_FILENAME /\ artifact = File(<<>>))
        => audio.resp = TextResponse("Audio file is empty", 500)

C14_EmptyUntilWritten ==
    (artifact = File(<<>>) /\ artifact' # artifact)
        => \E r \in Requests :
              /\ req[r].pc = "write"
              /\ req'[r].pos > req[r].pos
              /\ artifact' = File(WrittenSoFar(r)')

\* C14: a failed call event leaves the file as it was if it failed before
\* opening it; once it has opened it the file holds what the request wrote
\* before failing, which is nothing when the provider's 200 came with an empty
\* body and a prefix of the body when the write or the close raised; a file of
\* zero bytes is answered 500 by the audio retrieval and stays so until a
\* request writes bytes into it.
C14_FailureLeaves ==
    /\ [](C14_AfterFailure)
    /\ [](C14_EmptyAnswered500)
    /\ [][C14_EmptyUntilWritten]_vars

\* after a call event that emptied a non-empty file, the retrieval answers 500
C14_Witness ==
    /\ audio.pc = "served"
    /\ audio.filename = AUDIO_FILENAME
    /\ audio.resp.status = 500
    /\ artifact = File(<<>>)
    /\ artBefore.exists
    /\ getsize(artBefore) = 2

====
